---- MODULE Spec2Model ----
(***************************************************************************)
(* Dependency construction core of dephell:                                *)
(*   dephell/controllers/dependency.py  DependencyMaker.from_requirement,  *)
(*                                      DependencyMaker.from_params        *)
(*   dephell/converters/setuppy.py      SetupPyConverter.load              *)
(*                                                                         *)
(* Python values are encoded as follows.                                   *)
(*   str            a TLA+ string; chars(s) gives its characters           *)
(*   requirement    a sequence of tokens (the text) or a parsed record     *)
(*   url            a sequence of tokens; None_url is Python's None        *)
(*   object with a  a reference (a heap index); heap[r] is the _specs dict *)
(*   _specs dict    of the Constraint object r                             *)
(***************************************************************************)
EXTENDS Integers, Sequences, FiniteSets, TLC

VARIABLES hashSeed, heap, call, ret, log, pc, batch, idx, deps, root

vars == <<hashSeed, heap, call, ret, log, pc, batch, idx, deps, root>>

(***************************************************************************)
(* Bounds of the model.                                                    *)
(***************************************************************************)
MaxExtras == 2
MaxBatch == 2

(***************************************************************************)
(* Vocabulary the inputs are drawn from.                                   *)
(***************************************************************************)
ExtraTokens == {"extra1", "extra2"}
SpecTokens == {">=1.0,<2.0", "==2.0"}
MarkerTokens == {"python_version>='3.6'"}
PkgTokens == {"pkg"}
VcsSchemes == {"git+https"}
PlainSchemes == {"https"}

None_url == <<"None">>
None_extras == <<"None">>

Url_direct == <<"https", "host", "pkg.tar.gz">>
Url_vcs_pinned == <<"git+https", "example.com", "org", "real-name", "@", "deadbee">>
Url_vcs_unpinned == <<"git+https", "example.com", "org", "requests">>
Url_vcs_noname == <<"git+https", "example.com", "@", "deadbee">>

Urls == {None_url, <<>>, Url_direct, Url_vcs_pinned, Url_vcs_unpinned, Url_vcs_noname}

\* Python truthiness of an Optional[str] / Optional[list]: None and the
\* empty value are falsy.
Truthy(v) == v # <<"None">> /\ v # <<>>

\* First position of tok in s at or after from, 0 when absent.
IndexOf(s, tok, from) ==
    IF \E i \in from..Len(s) : s[i] = tok
    THEN CHOOSE i \in from..Len(s) : s[i] = tok /\ \A j \in from..(i - 1) : s[j] # tok
    ELSE 0

(***************************************************************************)
(* packaging.requirements.Requirement(text): the PEP 508 grammar           *)
(*   name [ "[" extra ("," extra)* "]" ] [ specifier | "@" url ]           *)
(*        [ ";" marker ]                                                   *)
(* The parsed object keeps the extras as a set.                            *)
(***************************************************************************)
InvalidRequirement ==
    [ok |-> FALSE, name |-> "", specifier |-> "", extras |-> {},
     marker |-> "None", url |-> None_url]

\* tokens between the brackets: extra ("," extra)*, or nothing
ExtrasListOk(s) ==
    \/ s = <<>>
    \/ /\ Len(s) % 2 = 1
       /\ \A i \in 1..Len(s) :
            IF i % 2 = 1 THEN s[i] \in ExtraTokens ELSE s[i] = ","

UrlOk(u) ==
    /\ Len(u) >= 2
    /\ u[1] \in VcsSchemes \cup PlainSchemes
    /\ \A i \in 1..Len(u) : u[i] \notin {";", "[", "]", ","}

Parsed(name, extras, specifier, url, marker) ==
    [ok |-> TRUE, name |-> name, specifier |-> specifier, extras |-> extras,
     marker |-> marker, url |-> url]

\* [ ";" marker ] and the end of the text; k is the next unread token
parse_marker(t, name, extras, specifier, url, k) ==
    IF k > Len(t) THEN Parsed(name, extras, specifier, url, "None")
    ELSE IF t[k] = ";" /\ Len(t) = k + 1 /\ t[k + 1] \in MarkerTokens
         THEN Parsed(name, extras, specifier, url, t[k + 1])
         ELSE InvalidRequirement

\* the url runs from k to e
parse_url(t, name, extras, k, e) ==
    IF UrlOk(SubSeq(t, k, e))
    THEN parse_marker(t, name, extras, "", SubSeq(t, k, e), e + 1)
    ELSE InvalidRequirement

UrlEnd(t, k) ==
    IF IndexOf(t, ";", k) = 0 THEN Len(t) ELSE IndexOf(t, ";", k) - 1

\* [ specifier | "@" url ]
parse_head(t, name, extras, k) ==
    IF k > Len(t) \/ t[k] = ";"
    THEN parse_marker(t, name, extras, "", None_url, k)
    ELSE IF t[k] \in SpecTokens
         THEN parse_marker(t, name, extras, t[k], None_url, k + 1)
         ELSE IF t[k] = "@"
              THEN parse_url(t, name, extras, k + 1, UrlEnd(t, k + 1))
              ELSE InvalidRequirement

ExtrasSet(s) == {s[i] : i \in {j \in 1..Len(s) : j % 2 = 1}}

\* "[" ... "]" with the closing bracket at close (0: none)
parse_bracket(t, close) ==
    IF close = 0 \/ ~ExtrasListOk(SubSeq(t, 3, close - 1))
    THEN InvalidRequirement
    ELSE parse_head(t, t[1], ExtrasSet(SubSeq(t, 3, close - 1)), close + 1)

PackagingRequirement(t) ==
    IF Len(t) = 0 \/ t[1] \notin PkgTokens THEN InvalidRequirement
    ELSE IF Len(t) >= 2 /\ t[2] = "["
         THEN parse_bracket(t, IndexOf(t, "]", 3))
         ELSE parse_head(t, t[1], {}, 2)

(***************************************************************************)
(* dephell.links.parse_link (Link Resolver).                               *)
(***************************************************************************)
NoLink == [kind |-> "None", url |-> <<>>, rev |-> "", name |-> ""]

parse_link(url) ==
    IF ~Truthy(url) THEN NoLink
    ELSE
    LET at == IndexOf(url, "@", 1)
        body == IF at = 0 THEN url ELSE SubSeq(url, 1, at - 1)
        rev == IF at = 0 \/ at = Len(url) THEN "" ELSE url[at + 1]
    IN  IF url[1] \in VcsSchemes
        THEN [kind |-> "VCSLink", url |-> url, rev |-> rev,
              name |-> IF Len(body) >= 3 THEN body[Len(body)] ELSE ""]
        ELSE [kind |-> "URLLink", url |-> url, rev |-> "", name |-> ""]

(***************************************************************************)
(* dephell.repositories.get_repo (Repository Locator).                     *)
(***************************************************************************)
get_repo(link) ==
    [kind |-> CASE link.kind = "VCSLink" -> "VCSRepo"
                [] link.kind = "URLLink" -> "URLRepo"
                [] OTHER -> "IndexRepo",
     link |-> link]

(***************************************************************************)
(* Heap of Constraint objects.  heap[r] is the _specs dict of object r:    *)
(* a function from the name of the requiring dependency to a specifier.    *)
(***************************************************************************)
\* the Constraint objects that exist before any call: those of the two
\* sources and two a caller has built, one a range and one a VCS pin
NoRef == <<"none", 0>>
RootRef == <<"source", 1>>
DepRef == <<"source", 2>>
PrebuiltRange == <<"prebuilt", 1>>
PrebuiltPinned == <<"prebuilt", 2>>
PriorRefs == {RootRef, DepRef, PrebuiltRange, PrebuiltPinned}
\* the Constraint a call makes, and the one load's i-th item makes
NewRef == <<"call", 0>>
ItemRef(i) == <<"item", i>>
ItemRefs == {ItemRef(i) : i \in 1..MaxBatch}
Refs == PriorRefs \cup {NewRef} \cup ItemRefs

Unallocated == <<>>

\* a constraint argument: specifier text, or a reference to a Constraint
TextValue(s) == [kind |-> "text", text |-> s, ref |-> NoRef]
RefValue(r) == [kind |-> "ref", text |-> "", ref |-> r]

RangeSpecifier(v) == [kind |-> "RangeSpecifier", of |-> v]
GitSpecifier == [kind |-> "GitSpecifier"]

\* d[k] = v on a dict
SetItem(d, k, v) == [x \in (DOMAIN d) \cup {k} |-> IF x = k THEN v ELSE d[x]]

\* Constraint(source, spec) constructed at the fresh reference r
Constraint(h, r, source, spec) ==
    [h EXCEPT ![r] = (source.name :> RangeSpecifier(spec))]

\* the dependencies that do the requiring
RootSource == [name |-> "root", cref |-> RootRef]
DepSource == [name |-> "requests", cref |-> DepRef]
None_source == [name |-> "None", cref |-> NoRef]
Sources == {RootSource, DepSource}

InitHeap ==
    [r \in Refs |->
        CASE r = RootRef -> ("root" :> RangeSpecifier(TextValue("")))
          [] r = DepRef -> ("root" :> RangeSpecifier(TextValue(">=1.0,<2.0")))
          [] r = PrebuiltRange -> ("root" :> RangeSpecifier(TextValue("==2.0")))
          [] r = PrebuiltPinned -> ("root" :> GitSpecifier)
          [] OTHER -> Unallocated]

(***************************************************************************)
(* Markers, Dependency, ExtraDependency.                                   *)
(***************************************************************************)
None_marker == [kind |-> "None"]
Markers(m) == [kind |-> "Markers", text |-> m]

None_repo == [kind |-> "None"]
RecordedRepo == [kind |-> "RecordedRepo"]

dep_class(raw_name, constraint, repo, link, marker, editable) ==
    [kind |-> "Dependency", raw_name |-> raw_name, constraint |-> constraint,
     repo |-> repo, link |-> link, marker |-> marker, editable |-> editable]

from_dep(dep, extra) ==
    [kind |-> "ExtraDependency", dep |-> dep, extra |-> extra]

(***************************************************************************)
(* Iteration order of a Python set of str: fixed within one process by the *)
(* hash seed, not by the order of insertion.  seed is an ordering of all   *)
(* extra names.                                                            *)
(***************************************************************************)
HashSeeds ==
    {s \in [1..Cardinality(ExtraTokens) -> ExtraTokens] :
        \A i, j \in DOMAIN s : i # j => s[i] # s[j]}

InSet(S) == [e \in ExtraTokens |-> e \in S]

SetIter(S, seed) ==
    LET keep == InSet(S)
        Test(e) == keep[e]
    IN  SelectSeq(seed, Test)

(***************************************************************************)
(* rex_hash = re.compile(r'[a-f0-9]{7}'), used with fullmatch.             *)
(***************************************************************************)
HexChars == {"a", "b", "c", "d", "e", "f",
             "0", "1", "2", "3", "4", "5", "6", "7", "8", "9"}

RawNames == {"a1b2c3d", "a1b2c3", "a1b2c3d4", "A1B2C3D", "a1b2c3g", "requests"}

\* the characters of the strings used as raw_name
chars(s) ==
    CASE s = "a1b2c3d" -> <<"a", "1", "b", "2", "c", "3", "d">>
      [] s = "a1b2c3" -> <<"a", "1", "b", "2", "c", "3">>
      [] s = "a1b2c3d4" -> <<"a", "1", "b", "2", "c", "3", "d", "4">>
      [] s = "A1B2C3D" -> <<"A", "1", "B", "2", "C", "3", "D">>
      [] s = "a1b2c3g" -> <<"a", "1", "b", "2", "c", "3", "g">>
      [] s = "requests" -> <<"r", "e", "q", "u", "e", "s", "t", "s">>
      [] s = "real-name" -> <<"r", "e", "a", "l", "-", "n", "a", "m", "e">>
      [] s = "pkg" -> <<"p", "k", "g">>

\* re.match instead of re.fullmatch: a prefix of seven hex characters
rex_hash_match(raw_name) ==
    LET c == chars(raw_name)
    IN  Len(c) >= 7 /\ \A i \in 1..7 : c[i] \in HexChars

rex_hash_fullmatch(raw_name) ==
    LET c == chars(raw_name)
    IN  Len(c) = 7 /\ \A i \in 1..7 : c[i] \in HexChars

(***************************************************************************)
(* Steps shared by the two entry points.                                   *)
(***************************************************************************)
\* req.url or url
effective_url_swapped(url, req_url) ==
    IF Truthy(req_url) THEN req_url ELSE url

\* url or req.url
effective_url(url, req_url) ==
    IF Truthy(url) THEN url ELSE req_url

\* the override left out
pin_override_skipped(h, r, source, link) == h

\* the override written into the source's own constraint
pin_override_source(h, r, source, link) ==
    IF link.kind = "VCSLink" /\ link.rev # ""
    THEN [h EXCEPT ![source.cref] = SetItem(h[source.cref], source.name, GitSpecifier)]
    ELSE h

\* if isinstance(link, VCSLink) and link.rev:
\*     constraint._specs[source.name] = GitSpecifier()
pin_override(h, r, source, link) ==
    IF link.kind = "VCSLink" /\ link.rev # ""
    THEN [h EXCEPT ![r] = SetItem(h[r], source.name, GitSpecifier)]
    ELSE h

\* extras appended last to first
extra_deps_reversed(base_dep, extras) ==
    [i \in 1..Len(extras) |-> from_dep(base_dep, extras[Len(extras) + 1 - i])]

\* for extra in extras: deps.append(cls.extra_class.from_dep(dep=base_dep, extra=extra))
extra_deps(base_dep, extras) ==
    [i \in 1..Len(extras) |-> from_dep(base_dep, extras[i])]

Raised == [status |-> "raised", deps |-> <<>>]

(***************************************************************************)
(* DependencyMaker.from_requirement(source, req, url, editable)            *)
(* evaluated on heap h, allocating at r.  req is [isStr, text, parsed].    *)
(* The value is [status, deps, heap, log]; log lists the links get_repo    *)
(* was called with.                                                        *)
(***************************************************************************)
\* the text is never parsed: attribute access on the str raises
req_of_unparsed(req) ==
    IF req.isStr THEN InvalidRequirement ELSE req.parsed

\* if type(req) is str: req = PackagingRequirement(req)
req_of(req) ==
    IF req.isStr THEN PackagingRequirement(req.text) ELSE req.parsed

\* deps = [base_dep]; the loop over the extras; return deps
make_deps(h, base_dep, extras, visited) ==
    [status |-> "ok",
     deps |-> <<base_dep>> \o extra_deps(base_dep, extras),
     heap |-> h,
     log |-> visited]

\* lines 33-54, with req parsed and link resolved
requirement_deps(h, seed, r, source, rq, link, editable) ==
    make_deps(pin_override(Constraint(h, r, source, TextValue(rq.specifier)),
                           r, source, link),
              dep_class(rq.name, RefValue(r), get_repo(link), link,
                        IF rq.marker # "None" THEN Markers(rq.marker)
                                              ELSE None_marker,
                        editable),
              IF rq.extras # {} THEN SetIter(rq.extras, seed) ELSE <<>>,
              <<link>>)

\* lines 31-54, with req parsed; a text that failed to parse has raised
parsed_requirement_deps(h, seed, r, source, rq, url, editable) ==
    IF ~rq.ok
    THEN [status |-> "raised", deps |-> <<>>, heap |-> h, log |-> <<>>]
    ELSE requirement_deps(h, seed, r, source, rq,
                          parse_link(effective_url(url, rq.url)), editable)

from_requirement(h, seed, r, source, req, url, editable) ==
    parsed_requirement_deps(h, seed, r, source, req_of(req), url, editable)

(***************************************************************************)
(* DependencyMaker.from_params, keyword arguments raw_name, constraint,    *)
(* url, source, repo, marker, extras and kwargs; kwargs carries editable.  *)
(***************************************************************************)
\* if link and link.name and rex_hash.fullmatch(raw_name): raw_name = link.name
recover_name(link, raw_name) ==
    IF link # NoLink /\ link.name # "" /\ rex_hash_fullmatch(raw_name)
    THEN link.name ELSE raw_name

\* the constraint wrapped whether or not a source is given
params_constraint_wrapped(h, r, source, constraint, link) ==
    LET h1 == Constraint(h, r, source, constraint)
    IN  [constraint |-> RefValue(r), heap |-> pin_override(h1, r, source, link)]

\* if source: constraint = Constraint(source, constraint); <override>
params_constraint(h, r, source, constraint, link) ==
    IF source # None_source
    THEN LET h1 == Constraint(h, r, source, constraint)
         IN  [constraint |-> RefValue(r), heap |-> pin_override(h1, r, source, link)]
    ELSE [constraint |-> constraint, heap |-> h]

\* repo = get_repo(link), whatever was passed
make_repo_always(repo, link) ==
    [repo |-> get_repo(link), log |-> <<link>>]

\* if repo is None: repo = get_repo(link)
make_repo(repo, link) ==
    IF repo = None_repo
    THEN [repo |-> get_repo(link), log |-> <<link>>]
    ELSE [repo |-> repo, log |-> <<>>]

\* lines 75-87, with the constraint c = [constraint, heap] and the repo
\* rp = [repo, log] made
params_deps(c, rp, raw_name, link, marker, extras, editable) ==
    make_deps(c.heap,
              dep_class(raw_name, c.constraint, rp.repo, link,
                        IF marker # "None" THEN Markers(marker) ELSE None_marker,
                        editable),
              IF Truthy(extras) THEN extras ELSE <<>>,
              rp.log)

\* lines 63-87, with link resolved
linked_params_deps(h, r, raw_name, constraint, link, source, repo, marker, extras, editable) ==
    params_deps(params_constraint(h, r, source, constraint, link),
                make_repo(repo, link),
                recover_name(link, raw_name),
                link, marker, extras, editable)

from_params(h, r, raw_name, constraint, url, source, repo, marker, extras, editable) ==
    linked_params_deps(h, r, raw_name, constraint, parse_link(url), source, repo,
                       marker, extras, editable)

(***************************************************************************)
(* Inputs.                                                                 *)
(***************************************************************************)
ExtraLists == UNION {[1..k -> ExtraTokens] : k \in 0..MaxExtras}

\* "[" e1 "," e2 ... "]"
Bracketed(xs) ==
    <<"[">> \o [i \in 1..(2 * Len(xs) - 1) |->
                    IF i % 2 = 1 THEN xs[(i + 1) \div 2] ELSE ","] \o <<"]">>

ExtrasParts == {<<>>} \cup {Bracketed(xs) : xs \in ExtraLists \ {<<>>}}
HeadParts ==
    {<<>>} \cup {<<sp>> : sp \in SpecTokens}
           \cup {<<"@">> \o u : u \in {Url_direct, Url_vcs_pinned, Url_vcs_unpinned}}
MarkerParts == {<<>>} \cup {<<";", m>> : m \in MarkerTokens}

WellFormedTexts ==
    {<<n>> \o e \o hd \o m :
        n \in PkgTokens, e \in ExtrasParts, hd \in HeadParts, m \in MarkerParts}

MalformedTexts ==
    {<<>>, <<"==2.0">>, <<"pkg", "[", "extra1">>, <<"pkg", "[", ",", "]">>,
     <<"pkg", ";">>, <<"pkg", "@">>, <<"pkg", "==2.0", "==2.0">>}

StrReq(t) == [isStr |-> TRUE, text |-> t, parsed |-> InvalidRequirement]
ParsedReq(p) == [isStr |-> FALSE, text |-> <<>>, parsed |-> p]

Reqs ==
    {StrReq(t) : t \in WellFormedTexts \cup MalformedTexts}
        \cup {ParsedReq(PackagingRequirement(t)) : t \in WellFormedTexts}

ConstraintArgs ==
    {TextValue(">=1.0,<2.0"), TextValue("==2.0"),
     RefValue(DepRef), RefValue(PrebuiltRange), RefValue(PrebuiltPinned)}

ExtrasArgs == {None_extras} \cup ExtraLists

\* what setup.py declares; 'UNKNOWN' is the placeholder distutils reports
UNKNOWN == <<"UNKNOWN">>
SetupTexts ==
    {<<"pkg">>, <<"pkg", "[", "extra1", "]", ">=1.0,<2.0">>, <<"pkg", "[", "extra1">>}
SetupLists == UNION {[1..k -> SetupTexts \cup {UNKNOWN}] : k \in 0..MaxBatch}

NoCall == [op |-> "none"]
NoRet == [status |-> "none", deps |-> <<>>]
NoRoot == [status |-> "none", dependencies |-> <<>>]

(***************************************************************************)
(* SetupPyConverter._get_list                                              *)
(***************************************************************************)
IsKnown(value) == value # UNKNOWN

_get_list(values) ==
    IF values = <<>> THEN <<>> ELSE SelectSeq(values, IsKnown)

(***************************************************************************)
(* The state machine.                                                      *)
(***************************************************************************)
Init ==
    /\ hashSeed \in HashSeeds
    /\ heap = InitHeap
    /\ call = NoCall
    /\ ret = NoRet
    /\ log = <<>>
    /\ pc = "idle"
    /\ batch = <<>>
    /\ idx = 0
    /\ deps = <<>>
    /\ root = NoRoot

\* a caller invokes DependencyMaker.from_requirement
FromRequirement ==
    /\ pc = "idle"
    /\ \E source \in Sources, req \in Reqs, url \in Urls, editable \in BOOLEAN :
        \E res \in {from_requirement(heap, hashSeed, NewRef, source, req, url, editable)} :
            /\ call' = [op |-> "from_requirement", source |-> source, req |-> req,
                        url |-> url, editable |-> editable]
            /\ ret' = [status |-> res.status, deps |-> res.deps]
            /\ heap' = res.heap
            /\ log' = res.log
    /\ pc' = "returned"
    /\ UNCHANGED <<hashSeed, batch, idx, deps, root>>

\* a caller invokes DependencyMaker.from_params
FromParams ==
    /\ pc = "idle"
    /\ \E raw_name \in RawNames, constraint \in ConstraintArgs, url \in Urls,
          source \in Sources \cup {None_source},
          repo \in {None_repo, RecordedRepo},
          marker \in MarkerTokens \cup {"None"},
          extras \in ExtrasArgs, editable \in BOOLEAN :
        \E res \in {from_params(heap, NewRef, raw_name, constraint, url, source,
                                 repo, marker, extras, editable)} :
            /\ call' = [op |-> "from_params", raw_name |-> raw_name,
                        constraint |-> constraint, url |-> url, source |-> source,
                        repo |-> repo, marker |-> marker, extras |-> extras,
                        editable |-> editable]
            /\ ret' = [status |-> res.status, deps |-> res.deps]
            /\ heap' = res.heap
            /\ log' = res.log
    /\ pc' = "returned"
    /\ UNCHANGED <<hashSeed, batch, idx, deps, root>>

\* the caller drops the result; the Constraint made by the call is garbage
Discard ==
    /\ pc = "returned"
    /\ pc' = "idle"
    /\ call' = NoCall
    /\ ret' = NoRet
    /\ log' = <<>>
    /\ heap' = [heap EXCEPT ![NewRef] = Unallocated]
    /\ UNCHANGED <<hashSeed, batch, idx, deps, root>>

\* SetupPyConverter.load up to the loop: reqs = chain(requires, install_requires)
LoadStart ==
    /\ pc = "idle"
    /\ \E requires \in SetupLists, install_requires \in SetupLists :
        /\ Len(_get_list(requires) \o _get_list(install_requires)) <= MaxBatch
        /\ batch' = _get_list(requires) \o _get_list(install_requires)
    /\ idx' = 1
    /\ deps' = <<>>
    /\ root' = NoRoot
    /\ pc' = "load"
    /\ UNCHANGED <<hashSeed, heap, call, ret, log>>

\* deps.append(Dependency.from_requirement(source=root, req=req))
load_append(ds, rq, res) ==
    [pc |-> "load", deps |-> Append(ds, res.deps), heap |-> res.heap,
     call |-> [op |-> "from_requirement", source |-> RootSource,
               req |-> ParsedReq(rq), url |-> None_url, editable |-> FALSE],
     ret |-> [status |-> res.status, deps |-> res.deps],
     log |-> res.log]

\* an item that fails to parse is skipped and the loop goes on
load_item_skipping(h, seed, i, text, ds, rq) ==
    IF ~rq.ok
    THEN [pc |-> "load", deps |-> ds, heap |-> h,
          call |-> [op |-> "Requirement", text |-> text],
          ret |-> Raised, log |-> <<>>]
    ELSE load_append(ds, rq,
                     from_requirement(h, seed, ItemRef(i), RootSource,
                                      ParsedReq(rq), None_url, FALSE))

\* one pass of the loop body, rq being Requirement(req):
\*   req = Requirement(req)
\*   deps.append(Dependency.from_requirement(source=root, req=req))
\* An exception leaves load: its local deps is lost.
load_item(h, seed, i, text, ds, rq) ==
    IF ~rq.ok
    THEN [pc |-> "load_raised", deps |-> <<>>, heap |-> h,
          call |-> [op |-> "Requirement", text |-> text],
          ret |-> Raised, log |-> <<>>]
    ELSE load_append(ds, rq,
                     from_requirement(h, seed, ItemRef(i), RootSource,
                                      ParsedReq(rq), None_url, FALSE))

LoadStep ==
    /\ pc = "load"
    /\ idx <= Len(batch)
    /\ \E st \in {load_item(heap, hashSeed, idx, batch[idx], deps,
                            PackagingRequirement(batch[idx]))} :
           /\ pc' = st.pc
           /\ deps' = st.deps
           /\ heap' = st.heap
           /\ call' = st.call
           /\ ret' = st.ret
           /\ log' = st.log
    /\ idx' = idx + 1
    /\ UNCHANGED <<hashSeed, batch, root>>

\* root.attach_dependencies(deps); return root
LoadFinish ==
    /\ pc = "load"
    /\ idx > Len(batch)
    /\ root' = [status |-> "returned", dependencies |-> deps]
    /\ pc' = "load_done"
    /\ UNCHANGED <<hashSeed, heap, call, ret, log, batch, idx, deps>>

\* the caller of load goes on; everything load built is garbage
LoadDiscard ==
    /\ pc \in {"load_done", "load_raised"}
    /\ pc' = "idle"
    /\ call' = NoCall
    /\ ret' = NoRet
    /\ log' = <<>>
    /\ batch' = <<>>
    /\ idx' = 0
    /\ deps' = <<>>
    /\ root' = NoRoot
    /\ heap' = [r \in Refs |-> IF r \in ItemRefs THEN Unallocated ELSE heap[r]]
    /\ UNCHANGED hashSeed

Next ==
    \/ FromRequirement
    \/ FromParams
    \/ Discard
    \/ LoadStart
    \/ LoadStep
    \/ LoadFinish
    \/ LoadDiscard

Spec == Init /\ [][Next]_vars

TypeOK ==
    /\ pc \in {"idle", "returned", "load", "load_done", "load_raised"}
    /\ ret.status \in {"none", "ok", "raised"}
    /\ idx \in 0..(MaxBatch + 1)

(***************************************************************************)
(* Properties.                                                             *)
(***************************************************************************)
\* a call of one of the two entry points has returned its list
Returned ==
    /\ ret.status = "ok"
    /\ call.op \in {"from_requirement", "from_params"}

BaseDep == ret.deps[1]

\* the requirement object the last from_requirement call worked on
CallReq ==
    IF call.req.isStr THEN PackagingRequirement(call.req.text) ELSE call.req.parsed

PinnedLink(link) == link.kind = "VCSLink" /\ link.rev # ""

\* the Constraint object behind c holds nothing but VCS pins
IsPinConstraint(c) ==
    /\ c.kind = "ref"
    /\ DOMAIN heap[c.ref] # {}
    /\ \A n \in DOMAIN heap[c.ref] : heap[c.ref][n] = GitSpecifier

\* C1: when a source is supplied and the resolved link is a VCS link with a
\* non-empty revision, the constraint of the returned base Dependency holds
\* GitSpecifier under that source's name, whatever specifier or constraint
\* value was passed; no range survives in that slot.
C1_PinOverridesRange ==
    (Returned /\ call.source # None_source /\ PinnedLink(BaseDep.link))
        => /\ BaseDep.constraint.kind = "ref"
           /\ call.source.name \in DOMAIN heap[BaseDep.constraint.ref]
           /\ heap[BaseDep.constraint.ref][call.source.name] = GitSpecifier

\* a narrow range given as text, a pinned link given as the url argument
C1_Witness ==
    /\ pc = "returned"
    /\ Returned
    /\ call.op = "from_requirement"
    /\ call.url = Url_vcs_pinned
    /\ CallReq.specifier = "==2.0"
    /\ heap[BaseDep.constraint.ref][call.source.name] = GitSpecifier

\* C2 as stated: every returned base Dependency whose link is a VCS link with
\* a pinned revision has a VCS-pin constraint, from_params without a source
\* included.
C2_PinnedLinkHasPinConstraint ==
    (Returned /\ PinnedLink(BaseDep.link)) => IsPinConstraint(BaseDep.constraint)

\* C2 amended: a returned base Dependency whose link is a VCS link with a
\* pinned revision has a VCS-pin constraint when the call had a source;
\* from_params without a source returns the constraint it was given.
C2_PinnedLinkHasPinConstraintOrNoSource ==
    (Returned /\ PinnedLink(BaseDep.link))
        => \/ IsPinConstraint(BaseDep.constraint)
           \/ /\ call.op = "from_params"
              /\ call.source = None_source
              /\ BaseDep.constraint = call.constraint

\* the scenario of the spec: the name is recovered, the constraint is kept
C2_Witness ==
    /\ Returned
    /\ call.op = "from_params"
    /\ call.source = None_source
    /\ call.raw_name = "a1b2c3d"
    /\ call.url = Url_vcs_pinned
    /\ BaseDep.raw_name = "real-name"
    /\ BaseDep.constraint = TextValue(">=1.0,<2.0")
    /\ ~IsPinConstraint(BaseDep.constraint)

\* the extras as the caller listed them
ListedExtras ==
    IF call.op = "from_params"
    THEN IF Truthy(call.extras) THEN call.extras ELSE <<>>
    ELSE LET t == call.req.text
             close == IndexOf(t, "]", 3)
         IN  IF Len(t) >= 2 /\ t[2] = "["
             THEN [i \in 1..((close - 2) \div 2) |-> t[2 * i + 1]]
             ELSE <<>>

Distinct(xs) == \A i, j \in 1..Len(xs) : i # j => xs[i] # xs[j]

ExtraNames == [i \in 1..(Len(ret.deps) - 1) |-> ret.deps[i + 1].extra]

ExtrasReferenceBase ==
    /\ Len(ret.deps) >= 1
    /\ BaseDep.kind = "Dependency"
    /\ \A i \in 2..Len(ret.deps) :
        ret.deps[i].kind = "ExtraDependency" /\ ret.deps[i].dep = BaseDep

\* C3 as stated: with pairwise distinct extras e1..en listed, the result has
\* length 1+n, element 0 is the base, elements 1..n are ExtraDependency
\* objects on that base carrying e1..en in the listed order.
C3_ExtrasInListedOrder ==
    (/\ Returned
     /\ call.op = "from_requirement" => call.req.isStr
     /\ Distinct(ListedExtras))
        => /\ ExtrasReferenceBase
           /\ ExtraNames = ListedExtras

\* C3 amended: element 0 is the base and every other element is an
\* ExtraDependency on that base; from_params yields the listed names in the
\* listed order; from_requirement yields each distinct extra name of the
\* requirement once, in the iteration order of the requirement's extras set.
C3_ExtrasPerEntryPoint ==
    Returned
        => /\ ExtrasReferenceBase
           /\ IF call.op = "from_params"
              THEN ExtraNames = ListedExtras
              ELSE /\ {ExtraNames[i] : i \in DOMAIN ExtraNames} = CallReq.extras
                   /\ Len(ExtraNames) = Cardinality(CallReq.extras)
                   /\ ExtraNames = SetIter(CallReq.extras, hashSeed)

\* two extras listed, returned in the other order
C3_Witness ==
    /\ Returned
    /\ call.op = "from_requirement"
    /\ call.req.isStr
    /\ ListedExtras = <<"extra2", "extra1">>
    /\ ExtraNames = <<"extra1", "extra2">>
    /\ ExtrasReferenceBase

\* exactly seven characters, each of 0-9 a-f
SevenLowerHex(s) ==
    /\ Len(chars(s)) = 7
    /\ \A i \in DOMAIN chars(s) :
        chars(s)[i] \in {"0", "1", "2", "3", "4", "5", "6", "7", "8", "9",
                         "a", "b", "c", "d", "e", "f"}

\* C4: from_params replaces raw_name by the link's name when raw_name is
\* exactly seven lowercase hexadecimal characters and the link exists with a
\* non-empty name; otherwise raw_name passes through unchanged.
C4_NameRecovery ==
    (Returned /\ call.op = "from_params")
        => IF /\ SevenLowerHex(call.raw_name)
              /\ BaseDep.link # NoLink
              /\ BaseDep.link.name # ""
           THEN BaseDep.raw_name = BaseDep.link.name
           ELSE BaseDep.raw_name = call.raw_name

C4_Witness ==
    /\ Returned
    /\ call.op = "from_params"
    /\ call.raw_name = "a1b2c3d"
    /\ BaseDep.link.name = "real-name"
    /\ BaseDep.raw_name = "real-name"

\* C5: from_params without a source returns the constraint value it was
\* given: no new Constraint is made and the given one is not written to.
C5_ConstraintAsIs ==
    (pc = "returned" /\ Returned /\ call.op = "from_params"
        /\ call.source = None_source)
        => /\ BaseDep.constraint = call.constraint
           /\ heap[NewRef] = Unallocated
           /\ call.constraint.kind = "ref"
                => heap[call.constraint.ref] = InitHeap[call.constraint.ref]

\* a range Constraint passed with a pinned link and no source
C5_Witness ==
    /\ pc = "returned"
    /\ Returned
    /\ call.op = "from_params"
    /\ call.source = None_source
    /\ call.constraint = RefValue(PrebuiltRange)
    /\ PinnedLink(BaseDep.link)
    /\ BaseDep.constraint = RefValue(PrebuiltRange)
    /\ heap[PrebuiltRange] = ("root" :> RangeSpecifier(TextValue("==2.0")))

\* C6: from_params takes an explicitly passed repo verbatim and does not call
\* get_repo; without one, and always in from_requirement, the repo is
\* get_repo of the resolved link, called once.
C6_RepoVerbatimOrLocated ==
    Returned
        => IF call.op = "from_params" /\ call.repo # None_repo
           THEN BaseDep.repo = call.repo /\ log = <<>>
           ELSE BaseDep.repo = get_repo(BaseDep.link) /\ log = <<BaseDep.link>>

C6_Witness ==
    /\ Returned
    /\ call.op = "from_params"
    /\ call.repo = RecordedRepo
    /\ BaseDep.link.kind = "VCSLink"
    /\ BaseDep.repo = RecordedRepo
    /\ log = <<>>

\* the same call with the text parsed by the caller
PreParsedCall ==
    from_requirement([heap EXCEPT ![NewRef] = Unallocated], hashSeed, NewRef,
                     call.source, ParsedReq(PackagingRequirement(call.req.text)),
                     call.url, call.editable)

\* C7: for a text the grammar accepts, from_requirement on the text and on the
\* parsed text, with the same source, url and editable, return the same base
\* fields (the constraint compared by content) and the same extras sequence.
C7_TextAndParsedAgree ==
    (/\ pc = "returned"
     /\ call.op = "from_requirement"
     /\ call.req.isStr
     /\ PackagingRequirement(call.req.text).ok)
        => /\ ret.status = PreParsedCall.status
           /\ ret.deps = PreParsedCall.deps
           /\ heap[NewRef] = PreParsedCall.heap[NewRef]

C7_Witness ==
    /\ pc = "returned"
    /\ call.op = "from_requirement"
    /\ call.req.isStr
    /\ ret.status = "ok"
    /\ Len(ret.deps) = 3
    /\ BaseDep.marker = Markers("python_version>='3.6'")
    /\ ret.deps = PreParsedCall.deps

ItemOk(i) == PackagingRequirement(batch[i]).ok

\* a Constraint, hence a Dependency, was constructed for item i of the batch
Constructed(i) == heap[ItemRef(i)] # Unallocated

LoadEnded == pc \in {"load_done", "load_raised"}

\* C8 as stated: a parse failure is fatal to its item only; the other
\* requirements of the batch load processes are still constructed.
C8_OtherItemsConstructed ==
    LoadEnded
        => \A i \in 1..Len(batch) : IF ItemOk(i) THEN Constructed(i) ELSE ~Constructed(i)

\* C8 amended: a parse failure produces no Dependency for the failing item and
\* leaves the call by an exception.  load does not catch it: the items after
\* the failing one are never constructed, the list built so far is lost and no
\* root is returned; load returns a root only when every item parsed.
C8_FailureEndsLoad ==
    /\ ret.status = "raised" => ret.deps = <<>>
    /\ (pc = "returned" /\ ret.status = "raised") => heap[NewRef] = Unallocated
    /\ pc = "load_raised"
        => /\ ~ItemOk(idx - 1)
           /\ \A i \in 1..Len(batch) : Constructed(i) <=> i < idx - 1
           /\ \A i \in 1..(idx - 2) : ItemOk(i)
           /\ deps = <<>>
           /\ root = NoRoot
    /\ pc = "load_done"
        => /\ \A i \in 1..Len(batch) : ItemOk(i) /\ Constructed(i)
           /\ root.status = "returned"
           /\ Len(root.dependencies) = Len(batch)

\* the first item fails, a well-formed item follows it
C8_Witness ==
    /\ pc = "load_raised"
    /\ Len(batch) = 2
    /\ idx = 2
    /\ ~ItemOk(1)
    /\ ItemOk(2)
    /\ ~Constructed(2)

\* the last call evaluated on the initial heap
Replay ==
    IF call.op = "from_requirement"
    THEN from_requirement(InitHeap, hashSeed, NewRef, call.source, call.req,
                          call.url, call.editable)
    ELSE from_params(InitHeap, NewRef, call.raw_name, call.constraint, call.url,
                     call.source, call.repo, call.marker, call.extras,
                     call.editable)

C10_OverrideUrlFirst ==
    (Returned /\ call.op = "from_requirement")
        => BaseDep.link = parse_link(IF Truthy(call.url) THEN call.url
                                                          ELSE CallReq.url)

\* an override given together with an embedded URL
C10_Witness ==
    /\ Returned
    /\ call.op = "from_requirement"
    /\ call.url = Url_direct
    /\ CallReq.url = Url_vcs_pinned
    /\ BaseDep.link.kind = "URLLink"
    /\ BaseDep.link.url = Url_direct

====
